---------------------------- MODULE Spec2Model ----------------------------
(***************************************************************************)
(* A model of gentoo-functions' helper programs:                           *)
(*   ecma48-cpr.c   the cursor position query (specification Spec),        *)
(*   consoletype.c  the terminal classifier   (specification SpecCT).      *)
(* ecma48-cpr is modelled for the non-Apple build (per-process timer).     *)
(* Bytes are one-character strings; the escape byte is written "ESC".      *)
(***************************************************************************)
EXTENDS Integers, Sequences, FiniteSets, TLC

VARIABLES
    pc,            \* position of main() / die() in ecma48-cpr.c
    tty,           \* the terminal's attribute set (kernel side)
    save_tty,      \* static struct termios save_tty (all zero before tcgetattr)
    is_tty_saved,  \* static bool is_tty_saved
    is_timed_out,  \* static bool is_timed_out
    timer,         \* per-process timer: "unset", "armed", "fired", "deleted"
    intr,          \* SIGALRM arrived while read(2) was in progress (EINTR pending)
    ibuf,          \* the bytes ibuf[0 .. iptr-1]; iptr - ibuf = Len(ibuf)
    maxloops,      \* int maxloops
    row,           \* int row
    col,           \* int col
    nr,            \* ssize_t nr (result of the last read)
    termScript,    \* bytes the terminal has still to send
    inq,           \* bytes waiting in the terminal's input queue
    out,           \* what was written to standard output
    err,           \* what was written to standard error
    exitCode,      \* exit status, NoExit while running
    dieMsg,        \* argument of the die() call in progress
    hist,          \* history: facts about the run recorded for the properties
    ct,            \* the state of a run of consoletype
    sq             \* the state of a run of shquote

cprVars == <<pc, tty, save_tty, is_tty_saved, is_timed_out, timer, intr, ibuf,
             maxloops, row, col, nr, termScript, inq, out, err, exitCode,
             dieMsg, hist>>
vars == <<pc, tty, save_tty, is_tty_saved, is_timed_out, timer, intr, ibuf,
          maxloops, row, col, nr, termScript, inq, out, err, exitCode,
          dieMsg, hist, ct, sq>>

(***************************************************************************)
(* Program constants of ecma48-cpr.c                                       *)
(***************************************************************************)
BUFSIZE == 100
MAX_LOOPS == 20
EXIT_SUCCESS == 0
EXIT_FAILURE == 1
NoExit == 0 - 1

(***************************************************************************)
(* Bounds of the model                                                     *)
(***************************************************************************)
\* length of the terminal output that contains no escape byte
NoiseLen == 20
\* length of the longest burst of data the terminal sends
FloodLen == 100
\* number of bytes the terminal sends in one burst
BurstLen == 40

ESC == "ESC"
Digits == {"0", "1", "2", "3", "4", "5", "6", "7", "8", "9"}
Spaces == {" "}

DigitVal(ch) ==
    CASE ch = "0" -> 0 [] ch = "1" -> 1 [] ch = "2" -> 2 [] ch = "3" -> 3
      [] ch = "4" -> 4 [] ch = "5" -> 5 [] ch = "6" -> 6 [] ch = "7" -> 7
      [] ch = "8" -> 8 [] ch = "9" -> 9

Min(a, b) == IF a < b THEN a ELSE b

(***************************************************************************)
(* Terminal attributes: the fields of struct termios the program touches.  *)
(***************************************************************************)
Attr(echo, icanon, vmin, vtime) ==
    [echo |-> echo, icanon |-> icanon, vmin |-> vmin, vtime |-> vtime]

\* attribute sets the terminal may have when the program starts
InitialAttrs == { Attr(TRUE, TRUE, 1, 0), Attr(TRUE, FALSE, 4, 5) }

\* static storage before tcgetattr fills it: all zero
ZeroAttr == Attr(FALSE, FALSE, 0, 0)

\* new_tty, lines 74-91: ECHO* and ICANON cleared, VMIN = 1, VTIME = 1
RawMode(saved) ==
    [saved EXCEPT !.echo = FALSE, !.icanon = FALSE, !.vmin = 1, !.vtime = 1]

(***************************************************************************)
(* What the terminal may send after it received the query.                 *)
(***************************************************************************)
Noise == [i \in 1..NoiseLen |-> "x"]
\* more bytes than the buffer can take
Flood == [i \in 1..FloodLen |-> "x"]
ReplyValid == <<ESC, "[", "1", "0", ";", "3", "R">>
ReplyWide == <<ESC, "[", "2", "4", ";", "8", "0", "R">>
ReplyForeignFirst == <<ESC, "[", "?", "1", ";", "2", "c", ESC, "[", "5", ";", "9", "R">>
ReplyZeroRow == <<ESC, "[", "0", ";", "5", "R">>
ReplyZeroCol == <<ESC, "[", "5", ";", "0", "R">>
ReplyMissingField == <<ESC, "[", "1", "2", ";", "R">>
ReplyNegative == <<ESC, "[", "-", "1", ";", "5", "R">>
ReplyAfterNoise == <<"x", "x", ESC, "[", "7", ";", "2", "R">>
Silent == <<>>

InvalidReplies == {ReplyZeroRow, ReplyZeroCol, ReplyMissingField, ReplyNegative}
TermScripts == {Silent, Noise, ReplyValid, ReplyWide, ReplyForeignFirst,
                ReplyAfterNoise} \cup InvalidReplies

(***************************************************************************)
(* sscanf(p, "\033[%d;%dR", &row, &col): the number of fields converted    *)
(* (EOF = -1 when the input ends before the first conversion) and the      *)
(* values stored.  A %d skips white space, takes an optional sign and then *)
(* one or more digits.  The return value does not tell whether the final   *)
(* R was matched.                                                          *)
(***************************************************************************)
RECURSIVE SkipSpace(_, _)
SkipSpace(s, i) ==
    IF i <= Len(s) /\ s[i] \in Spaces THEN SkipSpace(s, i + 1) ELSE i

RECURSIVE ScanDigits(_, _, _)
\* the value of the digit run of s that starts at i, given the value so far
ScanDigits(s, i, acc) ==
    IF i <= Len(s) /\ s[i] \in Digits
    THEN ScanDigits(s, i + 1, 10 * acc + DigitVal(s[i]))
    ELSE [val |-> acc, next |-> i]

\* %d at position i: [res |-> "ok" | "mismatch" | "eof", val, next]
ScanInt(s, i) ==
    LET j == SkipSpace(s, i)
        signed == j <= Len(s) /\ s[j] \in {"+", "-"}
        k == IF signed THEN j + 1 ELSE j
        d == ScanDigits(s, k, 0)
    IN  IF j > Len(s) THEN [res |-> "eof", val |-> 0, next |-> j]
        ELSE IF d.next = k
             THEN [res |-> IF k > Len(s) THEN "eof" ELSE "mismatch", val |-> 0, next |-> k]
             ELSE [res |-> "ok",
                   val |-> IF signed /\ s[j] = "-" THEN 0 - d.val ELSE d.val,
                   next |-> d.next]

EOF == 0 - 1

\* p is the buffer from its first escape byte on (p[1] = ESC)
Sscanf(p) ==
    IF Len(p) < 2 THEN [n |-> EOF, row |-> -1, col |-> -1, rowSet |-> FALSE]
    ELSE IF p[2] # "[" THEN [n |-> 0, row |-> -1, col |-> -1, rowSet |-> FALSE]
    ELSE LET r == ScanInt(p, 3)
         IN  IF r.res = "eof" THEN [n |-> EOF, row |-> -1, col |-> -1, rowSet |-> FALSE]
             ELSE IF r.res = "mismatch" THEN [n |-> 0, row |-> -1, col |-> -1, rowSet |-> FALSE]
             ELSE IF r.next > Len(p) \/ p[r.next] # ";"
                  THEN [n |-> 1, row |-> r.val, col |-> -1, rowSet |-> TRUE]
                  ELSE LET c == ScanInt(p, r.next + 1)
                       IN  IF c.res = "ok"
                           THEN [n |-> 2, row |-> r.val, col |-> c.val, rowSet |-> TRUE]
                           ELSE [n |-> 1, row |-> r.val, col |-> -1, rowSet |-> TRUE]

\* strchr(ibuf, '\033'): the index of the first escape byte, 0 when there is none
RECURSIVE StrchrFrom(_, _)
StrchrFrom(s, i) ==
    IF i > Len(s) THEN 0 ELSE IF s[i] = ESC THEN i ELSE StrchrFrom(s, i + 1)

StrchrEsc(s) == StrchrFrom(s, 1)

(***************************************************************************)
(* The body of the read loop after a successful read, lines 140-150:       *)
(* [brk |-> the loop is left by break, row, col].                          *)
(***************************************************************************)
ScanBuffer(buf, r0, c0) ==
    LET p == StrchrEsc(buf)
    IN  IF p = 0 THEN [brk |-> FALSE, row |-> r0, col |-> c0]
        ELSE LET m == Sscanf(SubSeq(buf, p, Len(buf)))
             IN  IF m.n = 2 THEN [brk |-> TRUE, row |-> m.row, col |-> m.col]
                 ELSE [brk |-> FALSE, row |-> -1, col |-> -1]

PositionAvailable_NonNegative(r, c) == ~(c < 0 \/ r < 0)

\* line 177: both col and row are above zero
PositionAvailable(r, c) == ~(c < 1 \/ r < 1)


(***************************************************************************)
(* Diagnostics passed to die()                                             *)
(***************************************************************************)
MsgNotTty == "cannot determine the cursor position because stdin is not a tty"
MsgDup == "failed to dup stdin"
MsgFdopen == "failed to re-open the tty for writing"
MsgTcgetattr == "failed to obtain the current terminal settings"
MsgTcsetattr == "failed to modify the terminal settings"
MsgTcflush == "failed to flush the terminal's input queue"
MsgWrite == "failed to write the CPR sequence to the terminal"
MsgFclose == "failed to flush the stream after writing the CPR sequence"
MsgTimerCreate == "failed to create a per-process timer"
MsgTimerSettime == "failed to configure the per-process timer"
MsgTimedOut == "timed out waiting for the terminal to respond to CPR"
MsgPosition == "failed to read the cursor position"

\* a line "<row> <col>\n" on standard output, whole or cut short
OutLine(kind, r, c) == [kind |-> kind, row |-> r, col |-> c]

CtIdle == [pc |-> "idle", name |-> <<>>, hasName |-> FALSE, maj |-> 0,
           ioctlOk |-> TRUE, arg |-> "none", type |-> 0, devnode |-> FALSE,
           out |-> <<>>, rc |-> 0]

SqIdle == [pc |-> "idle", args |-> <<>>, env |-> "unset", esc_mode |-> 2,
           i |-> 1, out |-> <<>>]

InitHist(t) ==
    [origTty |-> t, saved |-> FALSE, flagAtCheck |-> "unchecked",
     rawSet |-> FALSE, cleanupCalls |-> 0, restoreCalls |-> 0,
     restoreFailed |-> FALSE, reads |-> 0, matched |-> FALSE, wrote |-> "none",
     readFailed |-> FALSE, steps |-> <<>>]

\* the history with one more completed step
Step(h, name) == [h EXCEPT !.steps = Append(@, name)]

\* the start of a run on a terminal that will send one of scripts
InitCPR(scripts) ==
    /\ pc = "isatty"
    /\ tty \in InitialAttrs
    /\ save_tty = ZeroAttr
    /\ is_tty_saved = FALSE
    /\ is_timed_out = FALSE
    /\ timer = "unset"
    /\ intr = FALSE
    /\ ibuf = <<>>
    /\ maxloops = MAX_LOOPS
    /\ row = -1
    /\ col = -1
    /\ nr = 0
    /\ termScript \in scripts
    /\ inq = <<>>
    /\ out = <<>>
    /\ err = <<>>
    /\ exitCode = NoExit
    /\ dieMsg = ""
    /\ hist = InitHist(tty)
    /\ ct = CtIdle
    /\ sq = SqIdle

Init == InitCPR(TermScripts)

(***************************************************************************)
(* cleanup(), lines 213-220; ok: whether the restoring tcsetattr succeeds  *)
(* (its result is ignored by the code).                                    *)
(***************************************************************************)
DoCleanup_NoRestore(ok) ==
    /\ UNCHANGED tty
    /\ is_tty_saved' = FALSE
    /\ hist' = [hist EXCEPT !.cleanupCalls = @ + 1]

DoCleanup_Unconditional(ok) ==
    /\ tty' = IF ok THEN save_tty ELSE tty
    /\ is_tty_saved' = FALSE
    /\ hist' = [hist EXCEPT !.cleanupCalls = @ + 1, !.restoreCalls = @ + 1,
                            !.restoreFailed = ~ok,
                            !.steps = Append(@, "restore")]

DoCleanup_KeepFlag(ok) ==
    IF is_tty_saved
    THEN /\ tty' = IF ok THEN save_tty ELSE tty
         /\ UNCHANGED is_tty_saved
         /\ hist' = [hist EXCEPT !.cleanupCalls = @ + 1, !.restoreCalls = @ + 1,
                                 !.restoreFailed = ~ok,
                                 !.steps = Append(@, "restore")]
    ELSE /\ UNCHANGED <<tty, is_tty_saved>>
         /\ hist' = [hist EXCEPT !.cleanupCalls = @ + 1]

DoCleanup(ok) ==
    IF is_tty_saved
    THEN /\ tty' = IF ok THEN save_tty ELSE tty
         /\ is_tty_saved' = FALSE
         /\ hist' = [hist EXCEPT !.cleanupCalls = @ + 1, !.restoreCalls = @ + 1,
                                 !.restoreFailed = ~ok,
                                 !.steps = Append(@, "restore")]
    ELSE /\ UNCHANGED <<tty, is_tty_saved>>
         /\ hist' = [hist EXCEPT !.cleanupCalls = @ + 1]

\* a call of die(errmsg), lines 222-227: cleanup, then the report, then exit
Die(errmsg) ==
    /\ pc' = "die_cleanup"
    /\ dieMsg' = errmsg

\* a library call that either succeeds (go to next) or fails (die with msg)
\* and changes nothing else
Call(here, next, msg) ==
    /\ pc = here
    /\ \E ok \in BOOLEAN :
          IF ok
          THEN pc' = next /\ hist' = Step(hist, here) /\ UNCHANGED dieMsg
          ELSE Die(msg) /\ UNCHANGED hist
    /\ UNCHANGED <<tty, save_tty, is_tty_saved, is_timed_out, timer, intr, ibuf,
                   maxloops, row, col, nr, termScript, inq, out, err, exitCode, ct, sq>>

\* line 43
IsATty == Call("isatty", "dup", MsgNotTty)
\* lines 51-54
Dup == Call("dup", "fdopen", MsgDup)
\* lines 56-59
Fdopen == Call("fdopen", "tcgetattr", MsgFdopen)

\* lines 65-69
Tcgetattr ==
    /\ pc = "tcgetattr"
    /\ \E ok \in BOOLEAN :
          IF ok
          THEN /\ save_tty' = tty
               /\ is_tty_saved' = TRUE
               /\ hist' = Step([hist EXCEPT !.saved = TRUE], "tcgetattr")
               /\ pc' = "tcsetattr"
               /\ UNCHANGED dieMsg
          ELSE /\ Die(MsgTcgetattr)
               /\ UNCHANGED <<save_tty, is_tty_saved, hist>>
    /\ UNCHANGED <<tty, is_timed_out, timer, intr, ibuf, maxloops, row, col, nr,
                   termScript, inq, out, err, exitCode, ct, sq>>

\* lines 74-97
Tcsetattr_SkipsFlush ==
    /\ pc = "tcsetattr"
    /\ \E ok \in BOOLEAN :
          IF ok
          THEN /\ tty' = RawMode(save_tty)
               /\ hist' = Step([hist EXCEPT !.rawSet = TRUE], "tcsetattr")
               /\ pc' = "write_query"
               /\ UNCHANGED dieMsg
          ELSE /\ Die(MsgTcsetattr)
               /\ UNCHANGED <<tty, hist>>
    /\ UNCHANGED <<save_tty, is_tty_saved, is_timed_out, timer, intr, ibuf,
                   maxloops, row, col, nr, termScript, inq, out, err, exitCode, ct, sq>>

Tcsetattr ==
    /\ pc = "tcsetattr"
    /\ \E ok \in BOOLEAN :
          IF ok
          THEN /\ tty' = RawMode(save_tty)
               /\ hist' = Step([hist EXCEPT !.rawSet = TRUE], "tcsetattr")
               /\ pc' = "tcflush"
               /\ UNCHANGED dieMsg
          ELSE /\ Die(MsgTcsetattr)
               /\ UNCHANGED <<tty, hist>>
    /\ UNCHANGED <<save_tty, is_tty_saved, is_timed_out, timer, intr, ibuf,
                   maxloops, row, col, nr, termScript, inq, out, err, exitCode, ct, sq>>

\* line 98
Tcflush == Call("tcflush", "write_query", MsgTcflush)
\* line 100
WriteQuery == Call("write_query", "fclose", MsgWrite)
\* line 102: the query reaches the terminal when the stream is flushed
Fclose == Call("fclose", "sigaction", MsgFclose)

\* lines 110-114
Sigaction ==
    /\ pc = "sigaction"
    /\ pc' = "timer_create"
    /\ hist' = Step(hist, "sigaction")
    /\ UNCHANGED <<tty, save_tty, is_tty_saved, is_timed_out, timer, intr, ibuf,
                   maxloops, row, col, nr, termScript, inq, out, err, exitCode,
                   dieMsg, ct, sq>>

\* init_timer, lines 195-196
TimerCreate == Call("timer_create", "timer_settime", MsgTimerCreate)

\* init_timer, lines 198-206
TimerSettime ==
    /\ pc = "timer_settime"
    /\ \E ok \in BOOLEAN :
          IF ok
          THEN /\ timer' = "armed"
               /\ pc' = "loop_test"
               /\ hist' = Step(hist, "timer_settime")
               /\ UNCHANGED dieMsg
          ELSE /\ Die(MsgTimerSettime)
               /\ UNCHANGED <<timer, hist>>
    /\ UNCHANGED <<tty, save_tty, is_tty_saved, is_timed_out, intr, ibuf,
                   maxloops, row, col, nr, termScript, inq, out, err, exitCode, ct, sq>>

(***************************************************************************)
(* The read loop, lines 139-151.                                           *)
(***************************************************************************)
\* the history after one more call of read(2); failed: it returned <= 0
AfterRead(h, failed) ==
    [h EXCEPT !.reads = @ + 1,
              !.readFailed = failed,
              !.steps = IF h.reads = 0 THEN Append(@, "read") ELSE @]

\* imax - iptr: the length asked of read(2)
ReadCount_NoReserve == BUFSIZE - Len(ibuf)

ReadCount == (BUFSIZE - 1) - Len(ibuf)

\* line 139, left operand: --maxloops > 0
LoopContinues(m) == m > 0

LoopTest ==
    /\ pc = "loop_test"
    /\ maxloops' = maxloops - 1
    /\ pc' = IF LoopContinues(maxloops') THEN "in_read" ELSE "timer_delete"
    /\ UNCHANGED <<tty, save_tty, is_tty_saved, is_timed_out, timer, intr, ibuf,
                   row, col, nr, termScript, inq, out, err, exitCode, dieMsg,
                   hist, ct, sq>>

\* read(2) returns the bytes that are waiting (all of them, up to the length
\* asked for; 0 when that length is 0), then lines 140-150 run
ReadData ==
    /\ pc = "in_read"
    /\ inq # <<>> \/ ReadCount = 0
    /\ LET n == Min(Len(inq), ReadCount)
           buf == ibuf \o SubSeq(inq, 1, n)
           scan == ScanBuffer(buf, row, col)
       IN  /\ nr' = n
           /\ inq' = SubSeq(inq, n + 1, Len(inq))
           /\ ibuf' = buf
           /\ IF n > 0
              THEN /\ row' = scan.row
                   /\ col' = scan.col
                   /\ pc' = IF scan.brk THEN "timer_delete" ELSE "loop_test"
                   /\ hist' = [AfterRead(hist, FALSE) EXCEPT !.matched = scan.brk]
              ELSE /\ UNCHANGED <<row, col>>
                   /\ pc' = "timer_delete"
                   /\ hist' = AfterRead(hist, TRUE)
    /\ intr' = FALSE
    /\ UNCHANGED <<tty, save_tty, is_tty_saved, is_timed_out, timer, maxloops,
                   termScript, out, err, exitCode, dieMsg, ct, sq>>

\* read(2) is interrupted by SIGALRM (sa_flags = 0: no restart) and returns -1
ReadInterrupted ==
    /\ pc = "in_read"
    /\ intr
    /\ nr' = -1
    /\ intr' = FALSE
    /\ pc' = "timer_delete"
    /\ hist' = AfterRead(hist, TRUE)
    /\ UNCHANGED <<tty, save_tty, is_tty_saved, is_timed_out, timer, ibuf,
                   maxloops, row, col, termScript, inq, out, err, exitCode,
                   dieMsg, ct, sq>>

\* read(2) reports end of file (0) or an I/O error (-1)
ReadFail_Continues ==
    /\ pc = "in_read"
    /\ \E r \in {0, -1} : nr' = r
    /\ intr' = FALSE
    /\ pc' = "loop_test"
    /\ hist' = AfterRead(hist, TRUE)
    /\ UNCHANGED <<tty, save_tty, is_tty_saved, is_timed_out, timer, ibuf,
                   maxloops, row, col, termScript, inq, out, err, exitCode,
                   dieMsg, ct, sq>>

ReadFail ==
    /\ pc = "in_read"
    /\ \E r \in {0, -1} : nr' = r
    /\ intr' = FALSE
    /\ pc' = "timer_delete"
    /\ hist' = AfterRead(hist, TRUE)
    /\ UNCHANGED <<tty, save_tty, is_tty_saved, is_timed_out, timer, ibuf,
                   maxloops, row, col, termScript, inq, out, err, exitCode,
                   dieMsg, ct, sq>>

\* line 159
TimerDelete ==
    /\ pc = "timer_delete"
    /\ timer' = "deleted"
    /\ pc' = "check_timeout"
    /\ hist' = Step(hist, "timer_delete")
    /\ UNCHANGED <<tty, save_tty, is_tty_saved, is_timed_out, intr, ibuf,
                   maxloops, row, col, nr, termScript, inq, out, err, exitCode,
                   dieMsg, ct, sq>>

\* lines 165-167
CheckTimedOut_AfterMatch ==
    /\ pc = "check_timeout"
    /\ IF is_timed_out /\ ~hist.matched
       THEN Die(MsgTimedOut)
       ELSE pc' = "cleanup" /\ UNCHANGED dieMsg
    /\ hist' = Step([hist EXCEPT !.flagAtCheck = IF is_timed_out THEN "set" ELSE "clear"],
                     "inspect")
    /\ UNCHANGED <<tty, save_tty, is_tty_saved, is_timed_out, timer, intr, ibuf,
                   maxloops, row, col, nr, termScript, inq, out, err, exitCode, ct, sq>>

CheckTimedOut ==
    /\ pc = "check_timeout"
    /\ IF is_timed_out
       THEN Die(MsgTimedOut)
       ELSE pc' = "cleanup" /\ UNCHANGED dieMsg
    /\ hist' = Step([hist EXCEPT !.flagAtCheck = IF is_timed_out THEN "set" ELSE "clear"],
                     "inspect")
    /\ UNCHANGED <<tty, save_tty, is_tty_saved, is_timed_out, timer, intr, ibuf,
                   maxloops, row, col, nr, termScript, inq, out, err, exitCode, ct, sq>>

\* line 172
Cleanup ==
    /\ pc = "cleanup"
    /\ \E ok \in BOOLEAN : DoCleanup(ok)
    /\ pc' = "report"
    /\ UNCHANGED <<save_tty, is_timed_out, timer, intr, ibuf, maxloops, row, col,
                   nr, termScript, inq, out, err, exitCode, dieMsg, ct, sq>>

\* lines 177-183; printf or fflush may fail, and a failed fflush may have
\* written a part of the line
Report ==
    /\ pc = "report"
    /\ IF ~PositionAvailable(row, col)
       THEN /\ Die(MsgPosition)
            /\ UNCHANGED <<out, exitCode, hist>>
       ELSE /\ \E res \in {"ok", "printf_failed", "fflush_failed", "fflush_failed_partial"} :
                  /\ out' = CASE res = "ok" -> Append(out, OutLine("line", row, col))
                              [] res = "fflush_failed_partial" ->
                                     Append(out, OutLine("partial", row, col))
                              [] OTHER -> out
                  /\ exitCode' = IF res = "ok" THEN EXIT_SUCCESS ELSE EXIT_FAILURE
                  /\ hist' = [hist EXCEPT !.wrote = res]
            /\ pc' = "exited"
            /\ UNCHANGED dieMsg
    /\ UNCHANGED <<tty, save_tty, is_tty_saved, is_timed_out, timer, intr, ibuf,
                   maxloops, row, col, nr, termScript, inq, err, ct, sq>>

(***************************************************************************)
(* die(), lines 222-227, in its two steps                                  *)
(***************************************************************************)
\* line 224
DieCleanup_Skipped ==
    /\ pc = "die_cleanup"
    /\ pc' = "die_report"
    /\ UNCHANGED <<tty, is_tty_saved, hist, save_tty, is_timed_out, timer, intr,
                   ibuf, maxloops, row, col, nr, termScript, inq, out, err,
                   exitCode, dieMsg, ct, sq>>

DieCleanup ==
    /\ pc = "die_cleanup"
    /\ \E ok \in BOOLEAN : DoCleanup(ok)
    /\ pc' = "die_report"
    /\ UNCHANGED <<save_tty, is_timed_out, timer, intr, ibuf, maxloops, row, col,
                   nr, termScript, inq, out, err, exitCode, dieMsg, ct, sq>>

\* lines 225-226
DieReport ==
    /\ pc = "die_report"
    /\ err' = Append(err, dieMsg)
    /\ exitCode' = EXIT_FAILURE
    /\ pc' = "exited"
    /\ UNCHANGED <<tty, save_tty, is_tty_saved, is_timed_out, timer, intr, ibuf,
                   maxloops, row, col, nr, termScript, inq, out, dieMsg, hist, ct, sq>>

(***************************************************************************)
(* The environment: the timer's signal and the terminal                    *)
(***************************************************************************)
\* on_signal, lines 229-232, run when the armed timer expires; a read(2) in
\* progress is interrupted
OnSignal_Restores ==
    /\ timer = "armed"
    /\ pc \in {"loop_test", "in_read", "timer_delete"}
    /\ is_timed_out' = TRUE
    /\ timer' = "fired"
    /\ intr' = (pc = "in_read")
    /\ tty' = save_tty
    /\ is_tty_saved' = FALSE
    /\ UNCHANGED <<pc, save_tty, ibuf, maxloops, row, col, nr,
                   termScript, inq, out, err, exitCode, dieMsg, hist, ct, sq>>

OnSignal ==
    /\ timer = "armed"
    /\ pc \in {"loop_test", "in_read", "timer_delete"}
    /\ is_timed_out' = TRUE
    /\ timer' = "fired"
    /\ intr' = (pc = "in_read")
    /\ UNCHANGED <<pc, tty, save_tty, is_tty_saved, ibuf, maxloops, row, col, nr,
                   termScript, inq, out, err, exitCode, dieMsg, hist, ct, sq>>

\* the terminal, having received the query, sends the next bytes of its
\* output; bytes that arrive after the read loop are never looked at
TermSend ==
    /\ pc \in {"sigaction", "timer_create", "timer_settime", "loop_test", "in_read"}
    /\ termScript # <<>>
    /\ \E k \in 1..Len(termScript) :
          /\ inq' = inq \o SubSeq(termScript, 1, k)
          /\ termScript' = SubSeq(termScript, k + 1, Len(termScript))
    /\ UNCHANGED <<pc, tty, save_tty, is_tty_saved, is_timed_out, timer, intr,
                   ibuf, maxloops, row, col, nr, out, err, exitCode, dieMsg,
                   hist, ct, sq>>

\* the steps of the program itself
ProgramStep ==
    \/ IsATty \/ Dup \/ Fdopen \/ Tcgetattr \/ Tcsetattr \/ Tcflush
    \/ WriteQuery \/ Fclose \/ Sigaction \/ TimerCreate \/ TimerSettime
    \/ LoopTest \/ ReadData \/ ReadInterrupted
    \/ TimerDelete \/ CheckTimedOut \/ Cleanup \/ Report
    \/ DieCleanup \/ DieReport

Next == ProgramStep \/ ReadFail \/ OnSignal \/ TermSend

Spec == Init /\ [][Next]_vars

(***************************************************************************)
(* The same program with an interrupt signal.  Line 114 installs on_signal *)
(* for SIGALRM only and no other sigaction/signal call exists, so SIGINT   *)
(* keeps its default disposition: the process is terminated on the spot,   *)
(* no statement of the program runs afterwards.  new_tty (lines 83-84)     *)
(* leaves ISIG alone, so the interrupt key still raises SIGINT in the      *)
(* modified mode.                                                          *)
(***************************************************************************)
SigInt ==
    /\ pc \notin {"exited", "killed"}
    /\ pc' = "killed"
    /\ UNCHANGED <<tty, save_tty, is_tty_saved, is_timed_out, timer, intr, ibuf,
                   maxloops, row, col, nr, termScript, inq, out, err, exitCode,
                   dieMsg, hist, ct, sq>>

NextInt == Next \/ SigInt

SpecInt == Init /\ [][NextInt]_vars

(***************************************************************************)
(* The same program in front of a terminal that sends more than the buffer *)
(* can take.                                                               *)
(***************************************************************************)
InitBuf == InitCPR({Flood, ReplyValid})

\* the terminal sends its data in bursts of BurstLen bytes, or all that is
\* left at once
TermBurst ==
    /\ pc \in {"sigaction", "timer_create", "timer_settime", "loop_test", "in_read"}
    /\ termScript # <<>>
    /\ \E k \in {Min(BurstLen, Len(termScript)), Len(termScript)} :
          /\ inq' = inq \o SubSeq(termScript, 1, k)
          /\ termScript' = SubSeq(termScript, k + 1, Len(termScript))
    /\ UNCHANGED <<pc, tty, save_tty, is_tty_saved, is_timed_out, timer, intr,
                   ibuf, maxloops, row, col, nr, out, err, exitCode, dieMsg,
                   hist, ct, sq>>

NextBuf == ProgramStep \/ ReadFail \/ OnSignal \/ TermBurst

SpecBuf == InitBuf /\ [][NextBuf]_vars

(***************************************************************************)
(* Vocabulary of the properties                                            *)
(***************************************************************************)
Exited == pc = "exited"
Succeeded == Exited /\ exitCode = EXIT_SUCCESS
Failed == Exited /\ exitCode # EXIT_SUCCESS
TimeoutFailure == Failed /\ err = <<MsgTimedOut>> /\ out = <<>>

\* the step was completed in this run
Done(name) == \E i \in 1..Len(hist.steps) : hist.steps[i] = name
\* step a was completed before step b
Before(a, b) ==
    \A j \in 1..Len(hist.steps) :
        hist.steps[j] = b => \E i \in 1..(j - 1) : hist.steps[i] = a

\* everything the terminal sends in this run, read or not
FullReply == ibuf \o inq \o termScript

\* a complete CPR reply ESC [ digits ; digits R that starts at s[i]
CPRAt(s, i) ==
    IF i + 5 > Len(s) \/ s[i] # ESC \/ s[i + 1] # "[" \/ s[i + 2] \notin Digits
    THEN [ok |-> FALSE, row |-> 0, col |-> 0]
    ELSE LET r == ScanDigits(s, i + 2, 0)
         IN  IF r.next + 2 > Len(s) \/ s[r.next] # ";" \/ s[r.next + 1] \notin Digits
             THEN [ok |-> FALSE, row |-> 0, col |-> 0]
             ELSE LET c == ScanDigits(s, r.next + 1, 0)
                  IN  IF c.next > Len(s) \/ s[c.next] # "R"
                      THEN [ok |-> FALSE, row |-> 0, col |-> 0]
                      ELSE [ok |-> TRUE, row |-> r.val, col |-> c.val]

HasCPR(s) == \E i \in 1..Len(s) : CPRAt(s, i).ok
\* the first complete CPR reply of s
FirstCPR(s) ==
    CPRAt(s, CHOOSE i \in 1..Len(s) :
                 CPRAt(s, i).ok /\ \A j \in 1..(i - 1) : ~CPRAt(s, j).ok)

(***************************************************************************)
(* C1. Restoration invariant: a run that saved the terminal settings ends, *)
(* on every exit path, with the terminal's attributes equal to the         *)
(* snapshot taken before the raw mode was applied, provided the restoring  *)
(* tcsetattr succeeded.                                                    *)
(***************************************************************************)
C1_RestorationInvariant ==
    (Exited /\ hist.saved /\ ~hist.restoreFailed)
        => (tty = save_tty /\ tty = hist.origTty)

\* a run that applied the raw mode, timed out and left the terminal restored
C1_Witness ==
    /\ Exited
    /\ hist.rawSet
    /\ ~hist.restoreFailed
    /\ err = <<MsgTimedOut>>
    /\ tty = hist.origTty
    /\ tty # RawMode(save_tty)

(***************************************************************************)
(* C2. Timeout precedence: when the timed-out flag is set at the check     *)
(* that follows the read loop, the run ends with the timeout failure       *)
(* (diagnostic, non-zero status, empty standard output), also when the     *)
(* loop had matched a valid reply; no run with the flag set succeeds.      *)
(***************************************************************************)
C2_TimeoutPrecedence ==
    /\ (Exited /\ hist.flagAtCheck = "set") => TimeoutFailure
    /\ Succeeded => (~is_timed_out /\ hist.flagAtCheck = "clear")
    /\ (hist.flagAtCheck = "set" /\ ~Exited) =>
           (pc \in {"die_cleanup", "die_report"} /\ dieMsg = MsgTimedOut)

\* the timer fired although the loop had matched a valid position
C2_Witness ==
    /\ Exited
    /\ hist.flagAtCheck = "set"
    /\ hist.matched
    /\ PositionAvailable(row, col)
    /\ TimeoutFailure

(***************************************************************************)
(* C3. Bounded termination under timeout: once the timer is armed the run  *)
(* is never stuck short of its exit, also when the terminal sends nothing  *)
(* (more): a step of the program, the expiry of the timer or further       *)
(* output of the terminal is always possible until the run has exited;     *)
(* and a run in which the signal was delivered exits with the timeout      *)
(* failure.  (An end of file or an I/O error on the terminal, ReadFail, is *)
(* not something the run can count on.)                                    *)
(***************************************************************************)
C3_BoundedTermination ==
    /\ timer # "unset" => (Exited \/ ENABLED (ProgramStep \/ OnSignal \/ TermSend))
    /\ (Exited /\ is_timed_out) => TimeoutFailure

(***************************************************************************)
(* C4. Success condition: a run exits 0 exactly when the loop matched a    *)
(* reply, both fields are >= 1, the flag was not set and the line was      *)
(* written; the line then holds the row and column of the terminal's CPR   *)
(* reply; every other run exits non-zero.                                  *)
(***************************************************************************)
C4_SuccessCondition ==
    Exited =>
        /\ exitCode \in {EXIT_SUCCESS, EXIT_FAILURE}
        /\ Succeeded <=> /\ hist.matched
                         /\ PositionAvailable(row, col)
                         /\ ~is_timed_out
                         /\ hist.wrote = "ok"
        /\ Succeeded =>
              /\ HasCPR(FullReply)
              /\ out = <<OutLine("line", FirstCPR(FullReply).row,
                                         FirstCPR(FullReply).col)>>

(***************************************************************************)
(* C5. Failure reporting: a run that exits non-zero has written exactly    *)
(* one diagnostic line to standard error and nothing to standard output.   *)
(***************************************************************************)
C5_FailureReporting ==
    Failed => (Len(err) = 1 /\ out = <<>>)

(***************************************************************************)
(* C6. Scan resilience: when the buffer holds a complete CPR reply, also   *)
(* after an escape sequence that is not one, the reader has matched it     *)
(* and row and column are the fields of that reply.                        *)
(***************************************************************************)
C6_ScanResilience ==
    HasCPR(ibuf) =>
        /\ hist.matched
        /\ row = FirstCPR(ibuf).row
        /\ col = FirstCPR(ibuf).col

(***************************************************************************)
(* C7. Position validity: a line is printed, and the run succeeds, only    *)
(* with a matched row >= 1 and column >= 1; a reply with a zero or a       *)
(* missing field never gives a success or a printed value, and row and     *)
(* column hold no value of a sequence that did not match.                  *)
(***************************************************************************)
C7_PositionValidity ==
    /\ (out # <<>> \/ Succeeded) => (hist.matched /\ row >= 1 /\ col >= 1)
    /\ \A i \in 1..Len(out) : out[i].row = row /\ out[i].col = col
    /\ ~hist.matched => (row = -1 /\ col = -1)
    /\ FullReply \in InvalidReplies =>
          /\ out = <<>>
          /\ ~Succeeded
          /\ (Exited /\ hist.flagAtCheck = "clear") => err = <<MsgPosition>>

\* the reply ESC[0;5R was matched and the run failed: position unavailable
C7_Witness ==
    /\ Exited
    /\ FullReply = ReplyZeroRow
    /\ hist.matched
    /\ row = 0
    /\ col = 5
    /\ exitCode = EXIT_FAILURE
    /\ err = <<MsgPosition>>

(***************************************************************************)
(* C8. At-most-one restoration: the snapshot is re-applied at most once in *)
(* a run; a later call of cleanup makes no terminal-attribute call.        *)
(***************************************************************************)
C8_AtMostOneRestore ==
    /\ hist.restoreCalls <= 1
    /\ hist.restoreCalls = 1 => ~is_tty_saved

\* cleanup on the normal path, then die for an unavailable position
C8_Witness ==
    /\ Exited
    /\ hist.cleanupCalls = 2
    /\ hist.restoreCalls = 1
    /\ err = <<MsgPosition>>

(***************************************************************************)
(* C9. Restore before report (as claimed): in a run that saved the         *)
(* settings, whenever something has been written to standard error or      *)
(* standard output the restoration was attempted before, and the terminal  *)
(* is no longer in the modified mode.                                      *)
(***************************************************************************)
Reported == out # <<>> \/ err # <<>>

C9_RestoreBeforeReport ==
    (hist.saved /\ Reported) =>
        (hist.restoreCalls >= 1 /\ tty # RawMode(save_tty))

(***************************************************************************)
(* C9 (amended). In a run that saved the settings, whenever something has  *)
(* been written to standard error or standard output the restoration was   *)
(* attempted before, and the terminal is no longer in the modified mode    *)
(* unless the restoring tcsetattr failed.                                  *)
(***************************************************************************)
C9_RestoreAttemptBeforeReport ==
    (hist.saved /\ Reported) =>
        /\ hist.restoreCalls >= 1
        /\ ~hist.restoreFailed => (tty # RawMode(save_tty) /\ tty = save_tty)

\* a diagnostic written after the raw mode had been applied and undone
C9_Witness ==
    /\ err # <<>>
    /\ hist.rawSet
    /\ hist.restoreCalls = 1
    /\ ~hist.restoreFailed
    /\ tty = save_tty

(***************************************************************************)
(* C12. Full-match requirement: the loop is left as matched only when the  *)
(* buffer holds, from its escape byte on, the complete reply               *)
(* ESC [ digits ; digits R; row and column are then the fields of the      *)
(* terminal's reply, however the reply was split across reads.             *)
(***************************************************************************)
C12_FullMatch ==
    hist.matched =>
        /\ StrchrEsc(ibuf) # 0
        /\ CPRAt(ibuf, StrchrEsc(ibuf)).ok
        /\ row = CPRAt(FullReply, StrchrEsc(ibuf)).row
        /\ col = CPRAt(FullReply, StrchrEsc(ibuf)).col

(***************************************************************************)
(* C13. Interrupt handling: SIGINT and SIGALRM are both caught and fatal:  *)
(* delivery of either one while the terminal is in the modified mode leads *)
(* to an exit through the failure path with the settings restored, never   *)
(* to the process being terminated with the terminal left in raw mode.     *)
(***************************************************************************)
Killed == pc = "killed"
InModifiedMode == hist.rawSet /\ ~Done("restore") /\ tty = RawMode(save_tty)

C13_InterruptHandling ==
    /\ ~(Killed /\ InModifiedMode)
    /\ (Exited /\ is_timed_out) => (Failed /\ Done("restore"))

(***************************************************************************)
(* C14. Read-failure transitions: after a read that returned 0 or less no  *)
(* further read is made; the run ends with the timeout failure when the    *)
(* flag is found set, and with the read-error failure (no timeout          *)
(* diagnostic, no success, no output) when it is found clear.              *)
(***************************************************************************)
ReadErrorFailure == Failed /\ err = <<MsgPosition>> /\ out = <<>>

C14_ReadFailure ==
    hist.readFailed =>
        /\ nr <= 0
        /\ pc \notin {"loop_test", "in_read"}
        /\ (Exited /\ hist.flagAtCheck = "set") => TimeoutFailure
        /\ (Exited /\ hist.flagAtCheck = "clear") => ReadErrorFailure
        /\ Exited => hist.flagAtCheck # "unchecked"

\* an end of file on the first read, no timeout: the read-error failure
C14_Witness ==
    /\ Exited
    /\ hist.readFailed
    /\ hist.reads = 1
    /\ nr = 0
    /\ hist.flagAtCheck = "clear"
    /\ ReadErrorFailure

(***************************************************************************)
(* C15. Budget enforcement: a run in which every read returned at least    *)
(* one byte, the buffer never came to hold a full CPR reply and the timer  *)
(* did not fire makes a bounded number of reads and ends with the          *)
(* read-error failure.                                                     *)
(***************************************************************************)
C15_BudgetEnforcement ==
    /\ hist.reads <= MAX_LOOPS
    /\ (Exited /\ hist.reads >= 1 /\ ~hist.readFailed /\ ~is_timed_out /\ ~HasCPR(ibuf))
          => ReadErrorFailure

(***************************************************************************)
(* C16. Iteration budget value: the loop makes at most 20 reads, and it    *)
(* gives up for want of a match only after the 20th read.                  *)
(***************************************************************************)
\* the loop was left because the budget ran out
BudgetExhausted ==
    /\ pc = "timer_delete"
    /\ ~hist.matched
    /\ ~hist.readFailed

C16_IterationBudget ==
    /\ hist.reads <= 20
    /\ BudgetExhausted => hist.reads = 20

(***************************************************************************)
(* C17. Read-buffer bound: the write cursor stays between 0 and            *)
(* capacity - 1, every read is asked for a length that fits before the     *)
(* reserved byte, so the terminator lands inside the buffer; when the      *)
(* cursor reaches capacity - 1 without a match the loop ends (the          *)
(* zero-length read returns 0) and the run fails.                          *)
(***************************************************************************)
BufferFull == Len(ibuf) = BUFSIZE - 1

C17_BufferBound ==
    /\ Len(ibuf) <= BUFSIZE - 1
    /\ ReadCount >= 0
    /\ Len(ibuf) + ReadCount < BUFSIZE
    /\ nr <= BUFSIZE - 1
    /\ (BufferFull /\ ~hist.matched /\ pc = "in_read") => ReadCount = 0
    /\ (BufferFull /\ ~hist.matched /\ Exited) => Failed /\ out = <<>>

\* the buffer filled up, the next read was of length 0 and the run failed
C17_Witness ==
    /\ Exited
    /\ BufferFull
    /\ nr = 0
    /\ hist.readFailed
    /\ ~is_timed_out
    /\ ReadErrorFailure

(***************************************************************************)
(* C18. Signal-context frame: a run of the signal handler sets the         *)
(* timed-out flag and changes nothing else of the program (no output, no   *)
(* terminal attribute, not the snapshot, the saved flag, the buffer or the *)
(* parsed fields); and no step ever resets the flag once it is set.        *)
(***************************************************************************)
C18_SignalFrame ==
    [][ /\ OnSignal =>
             /\ is_timed_out'
             /\ UNCHANGED <<pc, tty, save_tty, is_tty_saved, ibuf, maxloops, row,
                            col, nr, termScript, inq, out, err, exitCode, dieMsg,
                            hist>>
        /\ is_timed_out => is_timed_out' ]_vars

\* the handler has run while read(2) was blocked in the modified mode
C18_Witness ==
    /\ is_timed_out
    /\ timer = "fired"
    /\ pc = "in_read"
    /\ intr
    /\ is_tty_saved
    /\ tty = RawMode(save_tty)
    /\ out = <<>>
    /\ err = <<>>

(***************************************************************************)
(* C19. Step ordering: the query is written only after the modified        *)
(* attributes (echo off, non-canonical, VMIN = 1, VTIME = 1) were applied  *)
(* and the input queue flushed; the write handle is closed before the      *)
(* timer is armed; the timer is armed after the handler is installed and   *)
(* before the first read; the timer is deleted before the flag is          *)
(* inspected and before the terminal is restored, and the flag does not    *)
(* change after its inspection.                                            *)
(***************************************************************************)
C19_StepOrdering ==
    /\ Before("tcsetattr", "write_query")
    /\ Before("tcflush", "write_query")
    /\ (Done("write_query") /\ ~Done("restore")) => tty = Attr(FALSE, FALSE, 1, 1)
    /\ Before("write_query", "fclose")
    /\ Before("fclose", "timer_settime")
    /\ Before("sigaction", "timer_settime")
    /\ Before("timer_settime", "read")
    /\ Done("timer_settime") <=> timer # "unset"
    /\ Before("timer_delete", "inspect")
    /\ Done("timer_settime") => Before("timer_delete", "restore")
    /\ Done("inspect") => (is_timed_out <=> hist.flagAtCheck = "set")

\* a successful run: every step was made, in the order above
C19_Witness ==
    /\ Succeeded
    /\ Done("tcflush")
    /\ Done("write_query")
    /\ Done("fclose")
    /\ Done("sigaction")
    /\ Done("timer_settime")
    /\ Done("read")
    /\ Done("timer_delete")
    /\ Done("inspect")
    /\ Done("restore")

(***************************************************************************)
(* C20. No write before save: as long as the terminal settings have not    *)
(* been saved the run makes no terminal-attribute write (cleanup is a      *)
(* no-op), the terminal keeps the attributes it started with, and the      *)
(* snapshot that was never filled is never applied.                        *)
(***************************************************************************)
C20_NoWriteBeforeSave ==
    /\ ~hist.saved =>
          /\ tty = hist.origTty
          /\ hist.restoreCalls = 0
          /\ ~Done("restore")
          /\ ~Done("tcsetattr")
          /\ ~is_tty_saved
    /\ tty # ZeroAttr

\* tcgetattr failed: die called cleanup, which did nothing
C20_Witness ==
    /\ Exited
    /\ ~hist.saved
    /\ hist.cleanupCalls = 1
    /\ err = <<MsgTcgetattr>>
    /\ tty = hist.origTty

(***************************************************************************)
(* consoletype.c (Linux build, TIOCLINUX defined).  A run is decided by    *)
(* what ttyname(0) returns, the major number of the device of descriptor   *)
(* 0 as fstat left it in sb, whether ioctl(TIOCLINUX) succeeds, and        *)
(* argv[1].  Names are sequences of one-character strings.                 *)
(***************************************************************************)
IS_VT == 0
IS_SERIAL == 1
IS_PTY == 2
IS_UNK == 3

\* tty_names[type], lines 26-31
tty_names(type) == <<"vt", "serial", "pty", "unknown">>[type + 1]

\* strncmp(s, lit, strlen(lit)) == 0
HasPrefix(s, lit) == Len(s) >= Len(lit) /\ SubSeq(s, 1, Len(lit)) = lit

NameTtyS0 == <<"/", "d", "e", "v", "/", "t", "t", "y", "S", "0">>  \* "/dev/ttyS0"
NameCuaa1 == <<"/", "d", "e", "v", "/", "c", "u", "a", "a", "1">>  \* "/dev/cuaa1"
NamePts3 == <<"/", "d", "e", "v", "/", "p", "t", "s", "/", "3">>  \* "/dev/pts/3"
NameTtyp0 == <<"/", "d", "e", "v", "/", "t", "t", "y", "p", "0">>  \* "/dev/ttyp0"
NameTty1 == <<"/", "d", "e", "v", "/", "t", "t", "y", "1">>  \* "/dev/tty1"
NameTty == <<"/", "d", "e", "v", "/", "t", "t", "y">>  \* "/dev/tty"
NameConsole == <<"/", "d", "e", "v", "/", "c", "o", "n", "s", "o", "l", "e">>  \* "/dev/console"
NameBareTtyS1 == <<"t", "t", "y", "S", "1">>  \* "ttyS1"
NameBarePts0 == <<"p", "t", "s", "/", "0">>  \* "pts/0"
NamePtsNoSlash == <<"/", "d", "e", "v", "/", "p", "t", "s">>  \* "/dev/pts"
NameShort == <<"/", "d", "e", "v", "/", "t", "t">>  \* "/dev/tt"
NameXtty == <<"/", "d", "e", "v", "/", "x", "t", "t", "y", "S", "0">>  \* "/dev/xttyS0"
NamePtmx == <<"/", "d", "e", "v", "/", "p", "t", "m", "x">>  \* "/dev/ptmx"
NameEmpty == <<>>  \* ""

CtNames == {NameTtyS0, NameCuaa1, NamePts3, NameTtyp0, NameTty1, NameTty, NameConsole,
            NameBareTtyS1, NameBarePts0, NamePtsNoSlash, NameShort, NameXtty, NamePtmx, NameEmpty}
CtMajors == {0, 3, 4, 5, 135, 136, 140, 143, 144, 188}
CtArgs == {"none", "stdout", "stderr"}

\* check_ttyname, lines 33-51, with "tty" tested before "ttyS" and "ttyp"
check_ttyname_TtyFirst(hasName, name) ==
    IF ~hasName THEN IS_UNK
    ELSE LET t == IF HasPrefix(name, <<"/", "d", "e", "v", "/">>)
                  THEN SubSeq(name, 6, Len(name)) ELSE name
         IN  IF HasPrefix(t, <<"t", "t", "y">>) THEN IS_VT
             ELSE IF HasPrefix(t, <<"t", "t", "y", "S">>) \/ HasPrefix(t, <<"c", "u", "a", "a">>)
             THEN IS_SERIAL
             ELSE IF HasPrefix(t, <<"p", "t", "s", "/">>) \/ HasPrefix(t, <<"t", "t", "y", "p">>)
             THEN IS_PTY
             ELSE IS_UNK

\* check_ttyname, lines 33-51; hasName is FALSE when ttyname(0) returns NULL
check_ttyname(hasName, name) ==
    IF ~hasName THEN IS_UNK
    ELSE LET t == IF HasPrefix(name, <<"/", "d", "e", "v", "/">>)
                  THEN SubSeq(name, 6, Len(name)) ELSE name
         IN  IF HasPrefix(t, <<"t", "t", "y", "S">>) \/ HasPrefix(t, <<"c", "u", "a", "a">>)
             THEN IS_SERIAL
             ELSE IF HasPrefix(t, <<"p", "t", "s", "/">>) \/ HasPrefix(t, <<"t", "t", "y", "p">>)
             THEN IS_PTY
             ELSE IF HasPrefix(t, <<"t", "t", "y">>) THEN IS_VT
             ELSE IS_UNK

\* check_devnode, lines 53-72; the result of fstat is not tested, so maj is
\* whatever sb holds (any value when fstat failed)
check_devnode(maj, ioctlOk) ==
    IF maj # 3 /\ (maj < 136 \/ maj > 143)
    THEN IF ~ioctlOk THEN IS_SERIAL ELSE IS_VT
    ELSE IS_PTY

\* line 77
CtTtyname ==
    /\ ct.pc = "start"
    /\ ct' = [ct EXCEPT !.type = check_ttyname(ct.hasName, ct.name), !.pc = "typed"]
    /\ UNCHANGED <<cprVars, sq>>

\* lines 78-79
CtDevnode ==
    /\ ct.pc = "typed"
    /\ ct' = IF ct.type = IS_UNK
             THEN [ct EXCEPT !.type = check_devnode(ct.maj, ct.ioctlOk),
                             !.devnode = TRUE, !.pc = "puts"]
             ELSE [ct EXCEPT !.pc = "puts"]
    /\ UNCHANGED <<cprVars, sq>>

\* lines 80-85
CtPuts ==
    /\ ct.pc = "puts"
    /\ ct' = [ct EXCEPT !.out = Append(ct.out, tty_names(ct.type)),
                        !.rc = IF ct.arg = "stdout" THEN 0 ELSE ct.type,
                        !.pc = "done"]
    /\ UNCHANGED <<cprVars, sq>>

InitCT ==
    /\ \E n \in CtNames, h \in BOOLEAN, m \in CtMajors, i \in BOOLEAN, a \in CtArgs :
          ct = [pc |-> "start", name |-> IF h THEN n ELSE <<>>, hasName |-> h,
                maj |-> m, ioctlOk |-> i, arg |-> a, type |-> 0, devnode |-> FALSE,
                out |-> <<>>, rc |-> 0]
    /\ pc = "idle"
    /\ tty = ZeroAttr
    /\ save_tty = ZeroAttr
    /\ is_tty_saved = FALSE
    /\ is_timed_out = FALSE
    /\ timer = "unset"
    /\ intr = FALSE
    /\ ibuf = <<>>
    /\ maxloops = MAX_LOOPS
    /\ row = -1
    /\ col = -1
    /\ nr = 0
    /\ termScript = <<>>
    /\ inq = <<>>
    /\ out = <<>>
    /\ err = <<>>
    /\ exitCode = NoExit
    /\ dieMsg = ""
    /\ hist = InitHist(ZeroAttr)
    /\ sq = SqIdle

NextCT == CtTtyname \/ CtDevnode \/ CtPuts

SpecCT == InitCT /\ [][NextCT]_vars

(***************************************************************************)
(* C10. consoletype classification: one of "vt", "serial", "pty",          *)
(* "unknown" is printed; the exit status is the index of the printed type, *)
(* or 0 when the first argument is "stdout"; the tty name decides first    *)
(* (after a leading "/dev/" is dropped: ttyS*, cuaa* serial; pts/*, ttyp*  *)
(* pty; any other tty* vt); the device number is consulted only when the   *)
(* name gives unknown, and then major 3 or 136..143 is a pty and anything  *)
(* else a vt or serial.                                                    *)
(***************************************************************************)
CtStripped == IF HasPrefix(ct.name, <<"/", "d", "e", "v", "/">>)
              THEN SubSeq(ct.name, 6, Len(ct.name)) ELSE ct.name
CtStarts(lit) == ct.hasName /\ HasPrefix(CtStripped, lit)
CtSerialName == CtStarts(<<"t", "t", "y", "S">>) \/ CtStarts(<<"c", "u", "a", "a">>)
CtPtyName == CtStarts(<<"p", "t", "s", "/">>) \/ CtStarts(<<"t", "t", "y", "p">>)
CtVtName == CtStarts(<<"t", "t", "y">>) /\ ~CtSerialName /\ ~CtPtyName
CtNameUnknown == ~CtSerialName /\ ~CtPtyName /\ ~CtVtName
CtIndex(word) ==
    CASE word = "vt" -> 0 [] word = "serial" -> 1 [] word = "pty" -> 2
      [] word = "unknown" -> 3

C10_ConsoletypeClassification ==
    ct.pc = "done" =>
        /\ Len(ct.out) = 1
        /\ ct.out[1] \in {"vt", "serial", "pty", "unknown"}
        /\ ct.rc = IF ct.arg = "stdout" THEN 0 ELSE CtIndex(ct.out[1])
        /\ CtSerialName => ct.out[1] = "serial"
        /\ CtPtyName => ct.out[1] = "pty"
        /\ CtVtName => ct.out[1] = "vt"
        /\ ct.devnode <=> CtNameUnknown
        /\ CtNameUnknown =>
              IF ct.maj = 3 \/ (ct.maj >= 136 /\ ct.maj <= 143)
              THEN ct.out[1] = "pty"
              ELSE ct.out[1] \in {"vt", "serial"}

\* /dev/ttyp0 on a device whose major is not a pty's: the name decides, pty
C10_Witness ==
    /\ ct.pc = "done"
    /\ ct.hasName
    /\ ct.name = NameTtyp0
    /\ ct.maj = 4
    /\ ct.arg = "none"
    /\ ct.out = <<"pty">>
    /\ ct.rc = 2
    /\ ~ct.devnode
(***************************************************************************)
(* shquote.c.  Bytes are the integers 1..255; an argument is a sequence of *)
(* bytes (a C string without its NUL); standard output is a sequence of    *)
(* bytes.                                                                  *)
(***************************************************************************)
\* largest number of arguments, and largest length of one argument
MaxArgs == 2
MaxArgLen == 2

BEL == 7
BS == 8
HT == 9
NL == 10
VT == 11
FF == 12
CR == 13
EscByte == 27
SP == 32
DOLLAR == 36
QUOTE == 39
DigitOne == 49
BACKSLASH == 92
LetterA == 97
DEL == 127
\* the two bytes of U+00E9 in UTF-8; each alone is an invalid sequence
Utf8Lead == 195
Utf8Cont == 169

SqAlphabet == {LetterA, DigitOne, QUOTE, SP, BACKSLASH, DOLLAR, NL, DEL,
               Utf8Lead, Utf8Cont}

RECURSIVE SeqsUpTo(_, _)
SeqsUpTo(S, n) ==
    IF n = 0 THEN {<<>>}
    ELSE LET shorter == SeqsUpTo(S, n - 1)
         IN  shorter \cup {Append(x, b) : x \in shorter, b \in S}

SqStrings == SeqsUpTo(SqAlphabet, MaxArgLen)
SqArgLists == SeqsUpTo(SqStrings, MaxArgs)
\* POSIXLY_CORRECT: not in the environment, set to "", or set to a non-empty value
SqEnvs == {"unset", "empty", "nonempty"}

\* the byte at s[i], the terminating NUL past the end
ByteAt(s, i) == IF i <= Len(s) THEN s[i] ELSE 0

\* (b & 0xc0) == 0x80
IsCont(b) == b >= 128 /\ b <= 191

\* labels u4, u3, u2 of u8decode, lines 164-167: n continuation bytes follow
\* the byte at i
RECURSIVE Continuation(_, _, _, _)
Continuation(s, i, k, n) ==
    IF k > n THEN n + 1
    ELSE IF ~IsCont(ByteAt(s, i + k)) THEN 0 - 1
    ELSE Continuation(s, i, k + 1, n)

\* lines 143-168: the number of bytes of the code point at s[i], -1 if invalid
u8decode(s, i) ==
    LET b == ByteAt(s, i)
        b1 == ByteAt(s, i + 1)
    IN  IF b = 0 THEN 0
        ELSE IF b < 128 THEN 1
        ELSE IF b < 194 THEN 0 - 1
        ELSE IF b < 224 THEN Continuation(s, i, 1, 1)
        ELSE IF b < 240
             THEN IF b = 224 /\ b1 >= 128 /\ b1 <= 159 THEN 0 - 1
                  ELSE IF b = 237 /\ b1 >= 160 /\ b1 <= 191 THEN 0 - 1
                  ELSE Continuation(s, i, 1, 2)
        ELSE IF b < 245
             THEN IF b = 240 /\ b1 >= 128 /\ b1 <= 143 THEN 0 - 1
                  ELSE IF b = 244 /\ b1 > 143 THEN 0 - 1
                  ELSE Continuation(s, i, 1, 3)
        ELSE 0 - 1

\* line 77: "`^#*[]=|\\?${}()\"<>&;~\040"
MetaChars == {96, 94, 35, 42, 91, 93, 61, 124, 92, 63, 36, 123, 125, 40, 41, 34,
              60, 62, 38, 59, 126, 32}

\* lines 73-91: the quoting style chosen for s, scanning from position t
RECURSIVE ChooseEsc(_, _, _, _)
ChooseEsc(s, t, esc, mode) ==
    IF t > Len(s) THEN esc
    ELSE IF s[t] < 32 \/ s[t] \in {QUOTE, DEL} THEN mode
    ELSE IF s[t] \in MetaChars
         THEN IF 1 = mode THEN 1 ELSE ChooseEsc(s, t + 1, 1, mode)
    ELSE IF u8decode(s, t) < 0 THEN mode
    ELSE ChooseEsc(s, t + u8decode(s, t), esc, mode)

\* lines 98-107: '...' with '\'' for a quote
RECURSIVE SingleQuoteBody(_, _)
SingleQuoteBody(s, i) ==
    IF i > Len(s) THEN <<>>
    ELSE (IF s[i] = QUOTE THEN <<QUOTE, BACKSLASH, QUOTE, QUOTE>> ELSE <<s[i]>>)
         \o SingleQuoteBody(s, i + 1)

\* printf("\\%03o", b)
Octal(b) == <<BACKSLASH, 48 + (b \div 64), 48 + ((b \div 8) % 8), 48 + (b % 8)>>

\* lines 113-122: the bytes with a letter escape
LetterEscape(b) ==
    CASE b = BEL -> 97
      [] b = BS -> 98
      [] b = EscByte -> 101
      [] b = FF -> 102
      [] b = NL -> 110
      [] b = CR -> 114
      [] b = HT -> 116
      [] b = VT -> 118
      [] b = BACKSLASH -> BACKSLASH
      [] b = QUOTE -> QUOTE
      [] OTHER -> 0

\* lines 108-133: the inside of $'...'
RECURSIVE DollarQuoteBody(_, _)
DollarQuoteBody(s, i) ==
    IF i > Len(s) THEN <<>>
    ELSE IF LetterEscape(s[i]) # 0
         THEN <<BACKSLASH, LetterEscape(s[i])>> \o DollarQuoteBody(s, i + 1)
    ELSE IF s[i] < 32 \/ s[i] = DEL \/ u8decode(s, i) < 0
         THEN Octal(s[i]) \o DollarQuoteBody(s, i + 1)
    ELSE SubSeq(s, i, i + u8decode(s, i) - 1)
         \o DollarQuoteBody(s, i + u8decode(s, i))

\* lines 64-135: what print_shquoted(s) writes
print_shquoted(s, mode) ==
    LET esc == ChooseEsc(s, 1, 0, mode)
    IN  CASE esc = 0 -> s
          [] esc = 1 -> <<QUOTE>> \o SingleQuoteBody(s, 1) \o <<QUOTE>>
          [] esc = 2 -> <<DOLLAR, QUOTE>> \o DollarQuoteBody(s, 1) \o <<QUOTE>>

\* main, lines 50-53
SqGetenv ==
    /\ sq.pc = "getenv"
    /\ sq' = [sq EXCEPT !.esc_mode = IF sq.env = "nonempty" THEN 1 ELSE @,
                        !.pc = "loop"]
    /\ UNCHANGED <<cprVars, ct>>

\* main, lines 55-59: one turn of the loop over argv
SqPrintArg ==
    /\ sq.pc = "loop"
    /\ sq.i <= Len(sq.args)
    /\ sq' = [sq EXCEPT !.out = @ \o (IF sq.i > 1 THEN <<SP>> ELSE <<>>)
                                  \o print_shquoted(sq.args[sq.i], sq.esc_mode),
                        !.i = @ + 1]
    /\ UNCHANGED <<cprVars, ct>>

\* main, lines 60-61
SqNewline ==
    /\ sq.pc = "loop"
    /\ sq.i > Len(sq.args)
    /\ sq' = [sq EXCEPT !.out = Append(@, NL), !.pc = "done"]
    /\ UNCHANGED <<cprVars, ct>>

InitSQ ==
    /\ \E a \in SqArgLists, e \in SqEnvs :
          sq = [pc |-> "getenv", args |-> a, env |-> e, esc_mode |-> 2, i |-> 1,
                out |-> <<>>]
    /\ ct = CtIdle
    /\ pc = "idle"
    /\ tty = ZeroAttr
    /\ save_tty = ZeroAttr
    /\ is_tty_saved = FALSE
    /\ is_timed_out = FALSE
    /\ timer = "unset"
    /\ intr = FALSE
    /\ ibuf = <<>>
    /\ maxloops = MAX_LOOPS
    /\ row = -1
    /\ col = -1
    /\ nr = 0
    /\ termScript = <<>>
    /\ inq = <<>>
    /\ out = <<>>
    /\ err = <<>>
    /\ exitCode = NoExit
    /\ dieMsg = ""
    /\ hist = InitHist(ZeroAttr)

NextSQ == SqGetenv \/ SqPrintArg \/ SqNewline

SpecSQ == InitSQ /\ [][NextSQ]_vars

(***************************************************************************)
(* The shell's side: how a shell reads one line of input, splitting it     *)
(* into words and removing the quoting (plain word, backslash, '...',      *)
(* $'...' with backslash escapes).                                         *)
(***************************************************************************)
OctalDigits == 48..55

\* the byte a letter escape of $'...' stands for, -1 if it is not one
ShEscapeValue(c) ==
    CASE c = 97 -> BEL
      [] c = 98 -> BS
      [] c = 101 -> EscByte
      [] c = 102 -> FF
      [] c = 110 -> NL
      [] c = 114 -> CR
      [] c = 116 -> HT
      [] c = 118 -> VT
      [] c = BACKSLASH -> BACKSLASH
      [] c = QUOTE -> QUOTE
      [] c = 34 -> 34
      [] OTHER -> 0 - 1

\* the number of octal digits (at most 3) at line[i ..]
ShOctalLen(line, i) ==
    IF ByteAt(line, i) \notin OctalDigits THEN 0
    ELSE IF ByteAt(line, i + 1) \notin OctalDigits THEN 1
    ELSE IF ByteAt(line, i + 2) \notin OctalDigits THEN 2
    ELSE 3

RECURSIVE ShOctalValue(_, _, _)
ShOctalValue(line, i, n) ==
    IF n = 0 THEN 0
    ELSE ShOctalValue(line, i, n - 1) * 8 + (line[i + n - 1] - 48)

\* the text of '...' from position i (just after the opening quote)
RECURSIVE ShSingleQuote(_, _, _)
ShSingleQuote(line, i, acc) ==
    IF i > Len(line) THEN [ok |-> FALSE, next |-> i, bytes |-> acc]
    ELSE IF line[i] = QUOTE THEN [ok |-> TRUE, next |-> i + 1, bytes |-> acc]
    ELSE ShSingleQuote(line, i + 1, Append(acc, line[i]))

\* the text of $'...' from position i (just after the opening quote)
RECURSIVE ShDollarQuote(_, _, _)
ShDollarQuote(line, i, acc) ==
    IF i > Len(line) THEN [ok |-> FALSE, next |-> i, bytes |-> acc]
    ELSE IF line[i] = QUOTE THEN [ok |-> TRUE, next |-> i + 1, bytes |-> acc]
    ELSE IF line[i] = BACKSLASH
         THEN LET n == ShOctalLen(line, i + 1)
                  e == ByteAt(line, i + 1)
              IN  IF n > 0
                  THEN ShDollarQuote(line, i + 1 + n,
                                     Append(acc, ShOctalValue(line, i + 1, n) % 256))
                  ELSE IF ShEscapeValue(e) >= 0
                  THEN ShDollarQuote(line, i + 2, Append(acc, ShEscapeValue(e)))
                  ELSE ShDollarQuote(line, i + 1, Append(acc, BACKSLASH))
    ELSE ShDollarQuote(line, i + 1, Append(acc, line[i]))

\* the words of the line, reading from position i; cur: the word in
\* progress (inWord: there is one, possibly empty); dollar: $'...' was used;
\* rest: the bytes left after the end of the line
RECURSIVE ShWords(_, _, _, _, _, _)
ShWords(line, i, cur, inWord, words, dollar) ==
    LET finished == IF inWord THEN Append(words, cur) ELSE words
    IN  IF i > Len(line)
        THEN [ok |-> TRUE, words |-> finished, dollar |-> dollar, rest |-> 0]
        ELSE IF line[i] = NL
        THEN [ok |-> TRUE, words |-> finished, dollar |-> dollar,
              rest |-> Len(line) - i]
        ELSE IF line[i] \in {SP, HT}
        THEN ShWords(line, i + 1, <<>>, FALSE, finished, dollar)
        ELSE IF line[i] = QUOTE
        THEN LET q == ShSingleQuote(line, i + 1, <<>>)
             IN  IF q.ok
                 THEN ShWords(line, q.next, cur \o q.bytes, TRUE, words, dollar)
                 ELSE [ok |-> FALSE, words |-> words, dollar |-> dollar, rest |-> 0]
        ELSE IF line[i] = DOLLAR /\ ByteAt(line, i + 1) = QUOTE
        THEN LET q == ShDollarQuote(line, i + 2, <<>>)
             IN  IF q.ok
                 THEN ShWords(line, q.next, cur \o q.bytes, TRUE, words, TRUE)
                 ELSE [ok |-> FALSE, words |-> words, dollar |-> TRUE, rest |-> 0]
        ELSE IF line[i] = BACKSLASH /\ i < Len(line)
        THEN ShWords(line, i + 2, Append(cur, line[i + 1]), TRUE, words, dollar)
        ELSE ShWords(line, i + 1, Append(cur, line[i]), TRUE, words, dollar)

ShellWords(line) == ShWords(line, 1, <<>>, FALSE, <<>>, FALSE)

(***************************************************************************)
(* C11. shquote round trip: for every list of arguments (the empty string, *)
(* quotes, metacharacters, control bytes and DEL included) the line        *)
(* printed, split and unquoted as the shell does, gives back exactly the   *)
(* arguments, same count and same bytes; and with POSIXLY_CORRECT set to a *)
(* non-empty value the output never uses $'...'.                           *)
(***************************************************************************)
SqDone == sq.pc = "done"

C11_ShquoteRoundTrip ==
    SqDone =>
        /\ ShellWords(sq.out).ok
        /\ ShellWords(sq.out).rest = 0
        /\ ShellWords(sq.out).words = sq.args
        /\ sq.env = "nonempty" => ~ShellWords(sq.out).dollar

=============================================================================
